---- MODULE Spec2Model ----
(***************************************************************************)
(* Connect-N game engine (connectn/connect_n_game.py, player.py,           *)
(* game_status.py) and its builder (connect_n_game_builder.py) as a state  *)
(* machine.  The fields of the ConnectNGame object the caller works on are *)
(* the variables, each public method is one action, and every private      *)
(* helper is an operator computed the way the code computes it.  The       *)
(* caller's view of the last call (method, args, exception, return value)  *)
(* is kept in call / raised / ret.                                         *)
(***************************************************************************)
EXTENDS Integers, Sequences, FiniteSets, TLC

VARIABLES
    constructed,     \* TRUE once ConnectNGame.__init__ has returned normally
    rows,            \* self._rows
    columns,         \* self._columns
    win_length,      \* self._win_length
    board,           \* self._board : [0..rows-1 -> [0..columns-1 -> token]]
    current_player,  \* self._current_player
    game_status,     \* self._game_status
    winner,          \* self._winner
    call,            \* the last call made: [op, args]
    raised,          \* the exception that call raised, or NoError
    ret,             \* the value that call returned
    snapshots,       \* the lists get_board returned that the caller still holds
    writes,          \* number of cell assignments the caller made to them
    played,          \* the moves of a scripted game accepted so far
    builder,         \* the caller's ConnectNGameBuilder, if any: <<its fields>>
    held,            \* the game built before the present one, if kept: <<it>>
    chain,           \* the setter calls made on the builder since it was created
    inflight         \* the make_move calls in progress in the threads of the caller

engine == <<constructed, rows, columns, win_length, board, current_player,
            game_status, winner>>
caller == <<snapshots, writes, played, builder, held, chain, inflight>>
\* What the calls on a builder leave alone in the caller.
beside_builder == <<snapshots, writes, played, chain, inflight>>
vars == <<constructed, rows, columns, win_length, board, current_player,
          game_status, winner, call, raised, ret, snapshots, writes,
          played, builder, held, chain, inflight>>

----------------------------------------------------------------------------
(* Bounds of the model *)

\* Largest integer handed to the constructor.
MaxDim == 3
\* Constructor calls are explored for rows * columns up to MaxCells.
MaxCells == 9

\* In the specification of the caller's snapshots: boards of up to SnapCells
\* cells, up to MaxSnapshots snapshots held, up to MaxWrites cell assignments.
SnapCells == 4
MaxSnapshots == 2
MaxWrites == 1

\* Integers the caller passes to the constructor: one below zero, zero, and
\* up to MaxDim.
ArgRange == (0 - 1)..MaxDim
\* Positions the caller passes to make_move and is_valid_move: every position
\* of the board, and the positions one step outside each of its four edges
\* (row -1, row rows, column -1, column columns).
MoveArgs ==
    ((0..(rows - 1)) \X (0..(columns - 1)))
        \cup {<<0 - 1, 0>>, <<rows, 0>>, <<0, 0 - 1>>, <<0, columns>>}

----------------------------------------------------------------------------
(* player.py *)

PLAYER_ONE == "PLAYER_ONE"
PLAYER_TWO == "PLAYER_TWO"
Player == {PLAYER_ONE, PLAYER_TWO}
None == "None"

token_Swapped(p) == IF p = PLAYER_ONE THEN "O" ELSE "X"
\* Player.token
token(p) == IF p = PLAYER_ONE THEN "X" ELSE "O"

get_opponent_same(p) == p
get_opponent_AlwaysTwo(p) == PLAYER_TWO
\* Player.get_opponent
get_opponent(p) == IF p = PLAYER_ONE THEN PLAYER_TWO ELSE PLAYER_ONE

(* game_status.py *)

IN_PROGRESS == "IN_PROGRESS"
PLAYER_ONE_WON == "PLAYER_ONE_WON"
PLAYER_TWO_WON == "PLAYER_TWO_WON"
DRAW == "DRAW"
GameStatus == {IN_PROGRESS, PLAYER_ONE_WON, PLAYER_TWO_WON, DRAW}

----------------------------------------------------------------------------
(* Exceptions: ValueError with its message template and the values the     *)
(* f-string interpolates.                                                  *)

NoError == [kind |-> "none", msg |-> "", vals |-> <<>>]
ValueError(m, v) == [kind |-> "ValueError", msg |-> m, vals |-> v]

MsgRows == "Rows must be positive, got: {}"
MsgColumns == "Columns must be positive, got: {}"
MsgWinLength == "Win length must be positive, got: {}"
MsgExceed == "Win length ({}) cannot exceed min(rows, columns) = {}"
MsgGameOver == "Game is over, no more moves allowed"
MsgBounds == "Position ({}, {}) is out of bounds for board size {}x{}"
MsgOccupied == "Position ({}, {}) is already occupied"

min(a, b) == IF a <= b THEN a ELSE b

----------------------------------------------------------------------------
(* connect_n_game.py *)

\* [[' ' for _ in range(columns)] for _ in range(rows)]
EmptyBoard(r, c) == [i \in 0..(r - 1) |-> [j \in 0..(c - 1) |-> " "]]

Init ==
    /\ constructed = FALSE
    /\ rows = 0
    /\ columns = 0
    /\ win_length = 0
    /\ board = <<>>
    /\ current_player = None
    /\ game_status = None
    /\ winner = None
    /\ call = [op |-> "none", args |-> <<>>]
    /\ raised = NoError
    /\ ret = None
    /\ snapshots = <<>>
    /\ writes = 0
    /\ played = <<>>
    /\ builder = <<>>
    /\ held = <<>>
    /\ chain = <<>>
    /\ inflight = <<>>

\* The constructor's validation: the exception it raises, or NoError.
Validate_WinLengthFirst(r, c, w) ==
    IF w <= 0 THEN ValueError(MsgWinLength, <<w>>)
    ELSE IF w > min(r, c) THEN ValueError(MsgExceed, <<w, min(r, c)>>)
    ELSE IF r <= 0 THEN ValueError(MsgRows, <<r>>)
    ELSE IF c <= 0 THEN ValueError(MsgColumns, <<c>>)
    ELSE NoError
Validate_NoPositiveWinLength(r, c, w) ==
    IF r <= 0 THEN ValueError(MsgRows, <<r>>)
    ELSE IF c <= 0 THEN ValueError(MsgColumns, <<c>>)
    ELSE IF w > min(r, c) THEN ValueError(MsgExceed, <<w, min(r, c)>>)
    ELSE NoError
Validate_OffByOne(r, c, w) ==
    IF r <= 0 THEN ValueError(MsgRows, <<r>>)
    ELSE IF c <= 0 THEN ValueError(MsgColumns, <<c>>)
    ELSE IF w <= 0 THEN ValueError(MsgWinLength, <<w>>)
    ELSE IF w >= min(r, c) THEN ValueError(MsgExceed, <<w, min(r, c)>>)
    ELSE NoError
Validate(r, c, w) ==
    IF r <= 0 THEN ValueError(MsgRows, <<r>>)
    ELSE IF c <= 0 THEN ValueError(MsgColumns, <<c>>)
    ELSE IF w <= 0 THEN ValueError(MsgWinLength, <<w>>)
    ELSE IF w > min(r, c) THEN ValueError(MsgExceed, <<w, min(r, c)>>)
    ELSE NoError

\* The body of ConnectNGame.__init__ on the object being created: raise, or
\* assign the fields.
init_game(r, c, w) ==
    /\ raised' = Validate(r, c, w)
    /\ IF Validate(r, c, w) # NoError
       THEN UNCHANGED engine
       ELSE /\ constructed' = TRUE
            /\ rows' = r
            /\ columns' = c
            /\ win_length' = w
            /\ board' = EmptyBoard(r, c)
            /\ current_player' = PLAYER_ONE
            /\ game_status' = IN_PROGRESS
            /\ winner' = None

\* ConnectNGame(rows, columns, win_length) called by the user of the class.
ConnectNGame(r, c, w) ==
    /\ ~constructed
    /\ call' = [op |-> "__init__", args |-> <<r, c, w>>]
    /\ ret' = None
    /\ init_game(r, c, w)

\* ConnectNGame.is_game_over
is_game_over == game_status # IN_PROGRESS

is_valid_move_IgnoresOccupied(row, col) ==
    IF is_game_over THEN FALSE
    ELSE IF row < 0 \/ row >= rows \/ col < 0 \/ col >= columns THEN FALSE
    ELSE TRUE
is_valid_move_IgnoresGameOver(row, col) ==
    IF row < 0 \/ row >= rows \/ col < 0 \/ col >= columns THEN FALSE
    ELSE board[row][col] = " "
\* ConnectNGame.is_valid_move
is_valid_move(row, col) ==
    IF is_game_over THEN FALSE
    ELSE IF row < 0 \/ row >= rows \/ col < 0 \/ col >= columns THEN FALSE
    ELSE board[row][col] = " "

\* The while loop of _count_consecutive, from cell (r, c) onwards.
RECURSIVE walk(_, _, _, _, _, _)
walk(b, r, c, delta_row, delta_col, tok) ==
    IF 0 <= r /\ r < rows /\ 0 <= c /\ c < columns /\ b[r][c] = tok
    THEN 1 + walk(b, r + delta_row, c + delta_col, delta_row, delta_col, tok)
    ELSE 0

count_consecutive_OneStep(b, row, col, delta_row, delta_col, tok) ==
    IF walk(b, row + delta_row, col + delta_col, delta_row, delta_col, tok) > 0
    THEN 1 ELSE 0
\* ConnectNGame._count_consecutive
count_consecutive(b, row, col, delta_row, delta_col, tok) ==
    walk(b, row + delta_row, col + delta_col, delta_row, delta_col, tok)

check_direction_ForwardOnly(b, row, col, delta_row, delta_col, tok) ==
    1 + count_consecutive(b, row, col, delta_row, delta_col, tok) >= win_length
check_direction_Strict(b, row, col, delta_row, delta_col, tok) ==
    1 + count_consecutive(b, row, col, delta_row, delta_col, tok)
      + count_consecutive(b, row, col, 0 - delta_row, 0 - delta_col, tok)
      > win_length
\* ConnectNGame._check_direction
check_direction(b, row, col, delta_row, delta_col, tok) ==
    1 + count_consecutive(b, row, col, delta_row, delta_col, tok)
      + count_consecutive(b, row, col, 0 - delta_row, 0 - delta_col, tok)
      >= win_length

is_board_full_Never(b) == FALSE
is_board_full_FirstRow(b) == \A j \in 0..(columns - 1) : b[0][j] # " "
is_board_full_AnyRow(b) ==
    \E i \in 0..(rows - 1) : \A j \in 0..(columns - 1) : b[i][j] # " "
\* ConnectNGame._is_board_full
is_board_full(b) ==
    \A i \in 0..(rows - 1) : \A j \in 0..(columns - 1) : b[i][j] # " "

check_for_winner_NoDiagonal(b, row, col) ==
    LET tok == b[row][col]
        has_won == \/ check_direction(b, row, col, 0, 1, tok)
                   \/ check_direction(b, row, col, 1, 0, tok)
                   \/ check_direction(b, row, col, 1, 0 - 1, tok)
    IN  IF has_won
        THEN [winner |-> current_player,
              game_status |-> IF current_player = PLAYER_ONE
                              THEN PLAYER_ONE_WON ELSE PLAYER_TWO_WON]
        ELSE IF is_board_full(b)
        THEN [winner |-> winner, game_status |-> DRAW]
        ELSE [winner |-> winner, game_status |-> game_status]
check_for_winner_CreditsOpponent(b, row, col) ==
    LET tok == b[row][col]
        has_won == \/ check_direction(b, row, col, 0, 1, tok)
                   \/ check_direction(b, row, col, 1, 0, tok)
                   \/ check_direction(b, row, col, 1, 1, tok)
                   \/ check_direction(b, row, col, 1, 0 - 1, tok)
    IN  IF has_won
        THEN [winner |-> get_opponent(current_player),
              game_status |-> IF current_player = PLAYER_ONE
                              THEN PLAYER_TWO_WON ELSE PLAYER_ONE_WON]
        ELSE IF is_board_full(b)
        THEN [winner |-> winner, game_status |-> DRAW]
        ELSE [winner |-> winner, game_status |-> game_status]
check_for_winner_NoDraw(b, row, col) ==
    LET tok == b[row][col]
        has_won == \/ check_direction(b, row, col, 0, 1, tok)
                   \/ check_direction(b, row, col, 1, 0, tok)
                   \/ check_direction(b, row, col, 1, 1, tok)
                   \/ check_direction(b, row, col, 1, 0 - 1, tok)
    IN  IF has_won
        THEN [winner |-> current_player,
              game_status |-> IF current_player = PLAYER_ONE
                              THEN PLAYER_ONE_WON ELSE PLAYER_TWO_WON]
        ELSE [winner |-> winner, game_status |-> game_status]
\* ConnectNGame._check_for_winner on the board b that holds the new token:
\* the values it leaves in self._winner and self._game_status.
check_for_winner(b, row, col) ==
    LET tok == b[row][col]
        has_won == \/ check_direction(b, row, col, 0, 1, tok)
                   \/ check_direction(b, row, col, 1, 0, tok)
                   \/ check_direction(b, row, col, 1, 1, tok)
                   \/ check_direction(b, row, col, 1, 0 - 1, tok)
    IN  IF has_won
        THEN [winner |-> current_player,
              game_status |-> IF current_player = PLAYER_ONE
                              THEN PLAYER_ONE_WON ELSE PLAYER_TWO_WON]
        ELSE IF is_board_full(b)
        THEN [winner |-> winner, game_status |-> DRAW]
        ELSE [winner |-> winner, game_status |-> game_status]

\* ConnectNGame._switch_player: the new self._current_player
switch_player == get_opponent(current_player)

\* The part of make_move after validation: place the token, check for a
\* winner, switch the player if the game continues.
place_token_AlwaysX(row, col) ==
    LET b == [board EXCEPT ![row][col] = token(PLAYER_ONE)]
        after == check_for_winner(b, row, col)
    IN  /\ board' = b
        /\ winner' = after.winner
        /\ game_status' = after.game_status
        /\ current_player' = IF after.game_status = IN_PROGRESS
                             THEN switch_player ELSE current_player
        /\ UNCHANGED <<constructed, rows, columns, win_length>>
place_token_AlwaysSwitches(row, col) ==
    LET b == [board EXCEPT ![row][col] = token(current_player)]
        after == check_for_winner(b, row, col)
    IN  /\ board' = b
        /\ winner' = after.winner
        /\ game_status' = after.game_status
        /\ current_player' = switch_player
        /\ UNCHANGED <<constructed, rows, columns, win_length>>
place_token_NeverSwitches(row, col) ==
    LET b == [board EXCEPT ![row][col] = token(current_player)]
        after == check_for_winner(b, row, col)
    IN  /\ board' = b
        /\ winner' = after.winner
        /\ game_status' = after.game_status
        /\ current_player' = current_player
        /\ UNCHANGED <<constructed, rows, columns, win_length>>
place_token(row, col) ==
    LET b == [board EXCEPT ![row][col] = token(current_player)]
        after == check_for_winner(b, row, col)
    IN  /\ board' = b
        /\ winner' = after.winner
        /\ game_status' = after.game_status
        /\ current_player' = IF after.game_status = IN_PROGRESS
                             THEN switch_player ELSE current_player
        /\ UNCHANGED <<constructed, rows, columns, win_length>>

make_move_BoundsBeforeGameOver(row, col) ==
    /\ constructed
    /\ call' = [op |-> "make_move", args |-> <<row, col>>]
    /\ ret' = None
    /\ IF /\ ~is_valid_move(row, col)
          /\ (row < 0 \/ row >= rows \/ col < 0 \/ col >= columns)
       THEN /\ raised' = ValueError(MsgBounds, <<row, col, rows, columns>>)
            /\ UNCHANGED engine
       ELSE IF ~is_valid_move(row, col) /\ is_game_over
       THEN raised' = ValueError(MsgGameOver, <<>>) /\ UNCHANGED engine
       ELSE IF ~is_valid_move(row, col) /\ board[row][col] # " "
       THEN /\ raised' = ValueError(MsgOccupied, <<row, col>>)
            /\ UNCHANGED engine
       ELSE raised' = NoError /\ place_token(row, col)
make_move_OccupiedBeforeGameOver(row, col) ==
    /\ constructed
    /\ call' = [op |-> "make_move", args |-> <<row, col>>]
    /\ ret' = None
    /\ IF /\ ~is_valid_move(row, col)
          /\ ~(row < 0 \/ row >= rows \/ col < 0 \/ col >= columns)
          /\ board[row][col] # " "
       THEN /\ raised' = ValueError(MsgOccupied, <<row, col>>)
            /\ UNCHANGED engine
       ELSE IF ~is_valid_move(row, col) /\ is_game_over
       THEN raised' = ValueError(MsgGameOver, <<>>) /\ UNCHANGED engine
       ELSE IF /\ ~is_valid_move(row, col)
               /\ (row < 0 \/ row >= rows \/ col < 0 \/ col >= columns)
       THEN /\ raised' = ValueError(MsgBounds, <<row, col, rows, columns>>)
            /\ UNCHANGED engine
       ELSE raised' = NoError /\ place_token(row, col)
make_move_AlwaysGameOver(row, col) ==
    /\ constructed
    /\ call' = [op |-> "make_move", args |-> <<row, col>>]
    /\ ret' = None
    /\ IF ~is_valid_move(row, col)
       THEN raised' = ValueError(MsgGameOver, <<>>) /\ UNCHANGED engine
       ELSE raised' = NoError /\ place_token(row, col)
make_move_OverwritesBeforeRaising(row, col) ==
    /\ constructed
    /\ call' = [op |-> "make_move", args |-> <<row, col>>]
    /\ ret' = None
    /\ IF ~is_valid_move(row, col) /\ is_game_over
       THEN raised' = ValueError(MsgGameOver, <<>>) /\ UNCHANGED engine
       ELSE IF /\ ~is_valid_move(row, col)
               /\ (row < 0 \/ row >= rows \/ col < 0 \/ col >= columns)
       THEN /\ raised' = ValueError(MsgBounds, <<row, col, rows, columns>>)
            /\ UNCHANGED engine
       ELSE IF ~is_valid_move(row, col) /\ board[row][col] # " "
       THEN /\ raised' = ValueError(MsgOccupied, <<row, col>>)
            /\ board' = [board EXCEPT ![row][col] = token(current_player)]
            /\ UNCHANGED <<constructed, rows, columns, win_length,
                           current_player, game_status, winner>>
       ELSE raised' = NoError /\ place_token(row, col)
make_move_NoOccupiedCheck(row, col) ==
    /\ constructed
    /\ call' = [op |-> "make_move", args |-> <<row, col>>]
    /\ ret' = None
    /\ IF ~is_valid_move(row, col) /\ is_game_over
       THEN raised' = ValueError(MsgGameOver, <<>>) /\ UNCHANGED engine
       ELSE IF /\ ~is_valid_move(row, col)
               /\ (row < 0 \/ row >= rows \/ col < 0 \/ col >= columns)
       THEN /\ raised' = ValueError(MsgBounds, <<row, col, rows, columns>>)
            /\ UNCHANGED engine
       ELSE raised' = NoError /\ place_token(row, col)
\* ConnectNGame.make_move
make_move(row, col) ==
    /\ constructed
    /\ call' = [op |-> "make_move", args |-> <<row, col>>]
    /\ ret' = None
    /\ IF ~is_valid_move(row, col) /\ is_game_over
       THEN raised' = ValueError(MsgGameOver, <<>>) /\ UNCHANGED engine
       ELSE IF /\ ~is_valid_move(row, col)
               /\ (row < 0 \/ row >= rows \/ col < 0 \/ col >= columns)
       THEN /\ raised' = ValueError(MsgBounds, <<row, col, rows, columns>>)
            /\ UNCHANGED engine
       ELSE IF ~is_valid_move(row, col) /\ board[row][col] # " "
       THEN /\ raised' = ValueError(MsgOccupied, <<row, col>>)
            /\ UNCHANGED engine
       ELSE raised' = NoError /\ place_token(row, col)

is_valid_move_call_PlacesToken(row, col) ==
    /\ constructed
    /\ call' = [op |-> "is_valid_move", args |-> <<row, col>>]
    /\ raised' = NoError
    /\ ret' = is_valid_move(row, col)
    /\ IF is_valid_move(row, col)
       THEN /\ board' = [board EXCEPT ![row][col] = token(current_player)]
            /\ UNCHANGED <<constructed, rows, columns, win_length,
                           current_player, game_status, winner>>
       ELSE UNCHANGED engine
\* A call of is_valid_move by the user of the game.
is_valid_move_call(row, col) ==
    /\ constructed
    /\ call' = [op |-> "is_valid_move", args |-> <<row, col>>]
    /\ raised' = NoError
    /\ ret' = is_valid_move(row, col)
    /\ UNCHANGED engine

board_copy_SharesRows ==
    [cells |-> [i \in 0..(rows - 1) |->
                  [j \in 0..(columns - 1) |-> board[i][j]]],
     same_rows |-> 0..(rows - 1)]
\* The list [row[:] for row in self._board]: a new outer list whose rows are
\* new lists with the cells of the board's rows.  same_rows is the set of
\* row indices at which the list holds the very list object of
\* self._board[i] instead of a new one: none, as row[:] copies each row.
board_copy ==
    [cells |-> [i \in 0..(rows - 1) |->
                  [j \in 0..(columns - 1) |-> board[i][j]]],
     same_rows |-> {}]

\* ConnectNGame.get_board
get_board ==
    /\ constructed
    /\ call' = [op |-> "get_board", args |-> <<>>]
    /\ raised' = NoError
    /\ ret' = board_copy.cells
    /\ UNCHANGED engine

\* What the caller reads in the list snap when the board is b: a row that is
\* the board's own list object shows the board's current cells, a copied row
\* shows its own.
snapshot_view(snap, b) ==
    [i \in DOMAIN snap.cells |->
        IF i \in snap.same_rows THEN b[i] ELSE snap.cells[i]]

\* The caller calls get_board and keeps the list it returns.
take_snapshot ==
    /\ Len(snapshots) < MaxSnapshots
    /\ get_board
    /\ snapshots' = Append(snapshots, board_copy)
    /\ UNCHANGED <<writes, played, builder, held, chain, inflight>>

\* The caller assigns snapshot[i][j] = v in the k-th list it holds: the
\* assignment goes to the row's list object, which is the board's row when
\* the two are the same object.
write_snapshot(k, i, j, v) ==
    /\ constructed
    /\ writes < MaxWrites
    /\ k \in 1..Len(snapshots)
    /\ i \in DOMAIN snapshots[k].cells
    /\ j \in DOMAIN snapshots[k].cells[i]
    /\ call' = [op |-> "write_snapshot", args |-> <<k, i, j, v>>]
    /\ raised' = NoError
    /\ ret' = None
    /\ writes' = writes + 1
    /\ IF i \in snapshots[k].same_rows
       THEN /\ board' = [board EXCEPT ![i][j] = v]
            /\ UNCHANGED snapshots
       ELSE /\ snapshots' = [snapshots EXCEPT ![k].cells[i][j] = v]
            /\ UNCHANGED board
    /\ UNCHANGED <<constructed, rows, columns, win_length, current_player,
                   game_status, winner>>
    /\ UNCHANGED <<played, builder, held, chain, inflight>>

reset_TransposesBoard ==
    /\ constructed
    /\ call' = [op |-> "reset", args |-> <<>>]
    /\ raised' = NoError
    /\ ret' = None
    /\ board' = EmptyBoard(columns, rows)
    /\ current_player' = PLAYER_ONE
    /\ game_status' = IN_PROGRESS
    /\ winner' = None
    /\ UNCHANGED <<constructed, rows, columns, win_length>>
reset_KeepsCurrentPlayer ==
    /\ constructed
    /\ call' = [op |-> "reset", args |-> <<>>]
    /\ raised' = NoError
    /\ ret' = None
    /\ board' = EmptyBoard(rows, columns)
    /\ game_status' = IN_PROGRESS
    /\ winner' = None
    /\ UNCHANGED <<constructed, rows, columns, win_length, current_player>>
reset_KeepsWinner ==
    /\ constructed
    /\ call' = [op |-> "reset", args |-> <<>>]
    /\ raised' = NoError
    /\ ret' = None
    /\ board' = EmptyBoard(rows, columns)
    /\ current_player' = PLAYER_ONE
    /\ game_status' = IN_PROGRESS
    /\ UNCHANGED <<constructed, rows, columns, win_length, winner>>
\* ConnectNGame.reset
reset ==
    /\ constructed
    /\ call' = [op |-> "reset", args |-> <<>>]
    /\ raised' = NoError
    /\ ret' = None
    /\ board' = EmptyBoard(rows, columns)
    /\ current_player' = PLAYER_ONE
    /\ game_status' = IN_PROGRESS
    /\ winner' = None
    /\ UNCHANGED <<constructed, rows, columns, win_length>>

\* The calls on one game; the caller keeps no snapshot.
Next ==
    \/ /\ \E r \in ArgRange, c \in ArgRange, w \in ArgRange :
             r * c <= MaxCells /\ ConnectNGame(r, c, w)
       /\ UNCHANGED caller
    \/ /\ \E p \in MoveArgs : make_move(p[1], p[2])
       /\ UNCHANGED caller
    \/ /\ \E p \in MoveArgs : is_valid_move_call(p[1], p[2])
       /\ UNCHANGED caller
    \/ get_board /\ UNCHANGED caller
    \/ reset /\ UNCHANGED caller

Spec == Init /\ [][Next]_vars

\* Values the caller assigns to cells of a snapshot.
WriteValues == {" ", "X", "O"}

\* A game on a small board whose caller keeps and modifies snapshots.
SnapshotNext ==
    \/ /\ \E r \in ArgRange, c \in ArgRange, w \in ArgRange :
             r * c <= SnapCells /\ ConnectNGame(r, c, w)
       /\ UNCHANGED caller
    \/ /\ \E i \in 0..(rows - 1), j \in 0..(columns - 1) : make_move(i, j)
       /\ UNCHANGED caller
    \/ take_snapshot
    \/ \E k \in 1..MaxSnapshots, i \in 0..(rows - 1), j \in 0..(columns - 1),
          v \in WriteValues : write_snapshot(k, i, j, v)

SnapshotSpec == Init /\ [][SnapshotNext]_vars

----------------------------------------------------------------------------
(* Scripted games: the move lists of the win and draw tests, played on a   *)
(* square board with win length 3.                                         *)

\* Largest square board the scripted games are played on.
MaxSquare == 10

\* test_horizontal_win_top_row, test_horizontal_wins_are_detected
HorizontalWin == <<<<0, 0>>, <<1, 0>>, <<0, 1>>, <<1, 1>>, <<0, 2>>>>
\* test_vertical_win_left_column, test_vertical_wins_are_detected
VerticalWin == <<<<0, 0>>, <<0, 1>>, <<1, 0>>, <<1, 1>>, <<2, 0>>>>
\* test_diagonal_win_top_left_to_bottom_right, test_diagonal_wins_are_detected
DiagonalWin == <<<<0, 0>>, <<0, 1>>, <<1, 1>>, <<0, 2>>, <<2, 2>>>>
\* test_draw_detection, test_full_board_without_winner_is_draw
DrawGame == <<<<0, 0>>, <<0, 1>>, <<0, 2>>, <<1, 1>>, <<1, 0>>, <<2, 0>>,
              <<1, 2>>, <<2, 2>>, <<2, 1>>>>
Scripts == {HorizontalWin, VerticalWin, DiagonalWin, DrawGame}

\* The script s has been followed so far, and its next move is made.  A move
\* that raises ends the script: nothing is added to played.
play(s) ==
    /\ Len(played) < Len(s)
    /\ \A k \in 1..Len(played) : played[k] = s[k]
    /\ make_move(s[Len(played) + 1][1], s[Len(played) + 1][2])
    /\ played' = IF raised' = NoError
                 THEN Append(played, s[Len(played) + 1])
                 ELSE played
    /\ UNCHANGED <<snapshots, writes, builder, held, chain, inflight>>

ScenarioNext ==
    \/ /\ \E size \in 3..MaxSquare : ConnectNGame(size, size, 3)
       /\ UNCHANGED caller
    \/ \E s \in Scripts : play(s)

ScenarioSpec == Init /\ [][ScenarioNext]_vars


----------------------------------------------------------------------------
(* connect_n_game_builder.py *)

\* Largest integer handed to the builder's setters.
MaxBuilderDim == 5
\* Largest integer handed to the setters of a builder that is built from
\* more than once.
MaxReuseDim == 2

BuilderArgs == 0..MaxBuilderDim
ReuseArgs == 1..MaxReuseDim

DEFAULT_ROWS == 3
DEFAULT_COLUMNS == 3
DEFAULT_WIN_LENGTH == 3

\* ConnectNGameBuilder(): the fields _rows, _columns, _win_length of a new
\* builder.
ConnectNGameBuilder ==
    [rows |-> DEFAULT_ROWS, columns |-> DEFAULT_COLUMNS,
     win_length |-> DEFAULT_WIN_LENGTH]

\* The setters, as the builder they return (self) for the builder b they
\* are called on.
builder_rows(b, v) == [b EXCEPT !.rows = v]
builder_columns(b, v) == [b EXCEPT !.columns = v]
builder_win_length_Clamped(b, v) ==
    [b EXCEPT !.win_length = min(v, min(b.rows, b.columns))]
builder_win_length(b, v) == [b EXCEPT !.win_length = v]
board_size_Swapped(b, r, c) == [b EXCEPT !.rows = c, !.columns = r]
board_size(b, r, c) == [b EXCEPT !.rows = r, !.columns = c]
square_board(b, size) == [b EXCEPT !.rows = size, !.columns = size]

\* What build returns: a reference to a game object.  NewObject is an object
\* that did not exist before the call, SameObject the object that an earlier
\* build returned.
NewObject == "new ConnectNGame object"
SameObject == "the ConnectNGame object built before"

build_game_SwapsDimensions(b) ==
    /\ init_game(b.columns, b.rows, b.win_length)
    /\ ret' = IF Validate(b.columns, b.rows, b.win_length) = NoError
              THEN NewObject ELSE None
build_game_Cached(b) ==
    IF constructed
    THEN raised' = NoError /\ ret' = SameObject /\ UNCHANGED engine
    ELSE /\ init_game(b.rows, b.columns, b.win_length)
         /\ ret' = IF Validate(b.rows, b.columns, b.win_length) = NoError
                   THEN NewObject ELSE None
\* ConnectNGameBuilder.build on the builder b: the constructor runs on a new
\* object with the builder's three fields, and the object is returned unless
\* the constructor raises.
build_game_AdaptsWinLength(b) ==
    LET w == min(b.win_length, min(b.rows, b.columns))
    IN  /\ init_game(b.rows, b.columns, w)
        /\ ret' = IF Validate(b.rows, b.columns, w) = NoError
                  THEN NewObject ELSE None
build_game(b) ==
    /\ init_game(b.rows, b.columns, b.win_length)
    /\ ret' = IF Validate(b.rows, b.columns, b.win_length) = NoError
              THEN NewObject ELSE None

\* The fields of the game the caller built last.
game_state ==
    [rows |-> rows, columns |-> columns, win_length |-> win_length,
     board |-> board, current_player |-> current_player,
     game_status |-> game_status, winner |-> winner]

\* What the caller reads through the reference h to an earlier game when
\* the present game is g: g itself if both are the same object.
held_view(h, g) == IF h.same THEN g ELSE h.state

\* builder = ConnectNGameBuilder()
new_builder ==
    /\ call' = [op |-> "ConnectNGameBuilder", args |-> <<>>]
    /\ raised' = NoError
    /\ ret' = None
    /\ builder' = <<ConnectNGameBuilder>>
    /\ UNCHANGED engine
    /\ UNCHANGED held

\* builder.rows(v)
rows_call(v) ==
    /\ builder # <<>>
    /\ call' = [op |-> "rows", args |-> <<v>>]
    /\ raised' = NoError
    /\ builder' = <<builder_rows(builder[1], v)>>
    /\ ret' = builder'[1]
    /\ UNCHANGED engine
    /\ UNCHANGED held

\* builder.columns(v)
columns_call(v) ==
    /\ builder # <<>>
    /\ call' = [op |-> "columns", args |-> <<v>>]
    /\ raised' = NoError
    /\ builder' = <<builder_columns(builder[1], v)>>
    /\ ret' = builder'[1]
    /\ UNCHANGED engine
    /\ UNCHANGED held

win_length_call_Validates(v) ==
    /\ builder # <<>>
    /\ call' = [op |-> "win_length", args |-> <<v>>]
    /\ IF v <= 0 \/ v > min(builder[1].rows, builder[1].columns)
       THEN /\ raised' = ValueError(MsgWinLength, <<v>>)
            /\ ret' = None
            /\ UNCHANGED builder
       ELSE /\ raised' = NoError
            /\ builder' = <<builder_win_length(builder[1], v)>>
            /\ ret' = builder'[1]
    /\ UNCHANGED engine
    /\ UNCHANGED held
\* builder.win_length(v)
win_length_call(v) ==
    /\ builder # <<>>
    /\ call' = [op |-> "win_length", args |-> <<v>>]
    /\ raised' = NoError
    /\ builder' = <<builder_win_length(builder[1], v)>>
    /\ ret' = builder'[1]
    /\ UNCHANGED engine
    /\ UNCHANGED held

\* builder.board_size(r, c)
board_size_call(r, c) ==
    /\ builder # <<>>
    /\ call' = [op |-> "board_size", args |-> <<r, c>>]
    /\ raised' = NoError
    /\ builder' = <<board_size(builder[1], r, c)>>
    /\ ret' = builder'[1]
    /\ UNCHANGED engine
    /\ UNCHANGED held

\* builder.square_board(size)
square_board_call(size) ==
    /\ builder # <<>>
    /\ call' = [op |-> "square_board", args |-> <<size>>]
    /\ raised' = NoError
    /\ builder' = <<square_board(builder[1], size)>>
    /\ ret' = builder'[1]
    /\ UNCHANGED engine
    /\ UNCHANGED held

\* game = builder.build(): the caller keeps no other game.
build ==
    /\ builder # <<>>
    /\ call' = [op |-> "build", args |-> <<>>]
    /\ build_game(builder[1])
    /\ UNCHANGED builder
    /\ UNCHANGED held

\* game1 = game; game = builder.build(): the caller keeps the game it had.
build_another ==
    /\ builder # <<>>
    /\ call' = [op |-> "build", args |-> <<>>]
    /\ build_game(builder[1])
    /\ UNCHANGED builder
    /\ held' = IF constructed /\ raised' = NoError
               THEN <<[state |-> game_state, same |-> ret' = SameObject]>>
               ELSE held

connect_four_Transposed ==
    /\ call' = [op |-> "connect_four", args |-> <<>>]
    /\ build_game(builder_win_length(
           builder_columns(builder_rows(ConnectNGameBuilder, 7), 6), 4))
    /\ UNCHANGED builder
    /\ UNCHANGED held
\* ConnectNGameBuilder.tic_tac_toe()
tic_tac_toe ==
    /\ call' = [op |-> "tic_tac_toe", args |-> <<>>]
    /\ build_game(builder_win_length(
           builder_columns(builder_rows(ConnectNGameBuilder, 3), 3), 3))
    /\ UNCHANGED builder
    /\ UNCHANGED held

\* ConnectNGameBuilder.connect_four()
connect_four ==
    /\ call' = [op |-> "connect_four", args |-> <<>>]
    /\ build_game(builder_win_length(
           builder_columns(builder_rows(ConnectNGameBuilder, 6), 7), 4))
    /\ UNCHANGED builder
    /\ UNCHANGED held

\* ConnectNGameBuilder.gomoku()
gomoku ==
    /\ call' = [op |-> "gomoku", args |-> <<>>]
    /\ build_game(builder_win_length(
           builder_columns(builder_rows(ConnectNGameBuilder, 15), 15), 5))
    /\ UNCHANGED builder
    /\ UNCHANGED held

\* ConnectNGameBuilder.small_game()
small_game ==
    /\ call' = [op |-> "small_game", args |-> <<>>]
    /\ build_game(builder_win_length(
           builder_columns(builder_rows(ConnectNGameBuilder, 5), 5), 4))
    /\ UNCHANGED builder
    /\ UNCHANGED held

\* ConnectNGameBuilder.large_game()
large_game ==
    /\ call' = [op |-> "large_game", args |-> <<>>]
    /\ build_game(builder_win_length(
           builder_columns(builder_rows(ConnectNGameBuilder, 10), 10), 5))
    /\ UNCHANGED builder
    /\ UNCHANGED held

\* ConnectNGameBuilder.custom_square(size, win_length)
custom_square(size, w) ==
    /\ call' = [op |-> "custom_square", args |-> <<size, w>>]
    /\ build_game(builder_win_length(
           square_board(ConnectNGameBuilder, size), w))
    /\ UNCHANGED builder
    /\ UNCHANGED held

\* The calls on one builder; the caller keeps the game built last.
BuilderNext ==
    \/ new_builder /\ UNCHANGED beside_builder
    \/ /\ \E v \in BuilderArgs : rows_call(v)
       /\ UNCHANGED beside_builder
    \/ /\ \E v \in BuilderArgs : columns_call(v)
       /\ UNCHANGED beside_builder
    \/ /\ \E v \in BuilderArgs : win_length_call(v)
       /\ UNCHANGED beside_builder
    \/ /\ \E r \in BuilderArgs, c \in BuilderArgs : board_size_call(r, c)
       /\ UNCHANGED beside_builder
    \/ /\ \E size \in BuilderArgs : square_board_call(size)
       /\ UNCHANGED beside_builder
    \/ build /\ UNCHANGED beside_builder

BuilderSpec == Init /\ [][BuilderNext]_vars

\* ---------------------------------------------------------------------
\* A caller that logs its calls on the builder
\* ---------------------------------------------------------------------

\* Largest value passed to a setter by the caller that logs its calls.
MaxOrderDim == 4
OrderArgs == (0 - 1)..MaxOrderDim

\* The fields a setter writes.
fields_of(op) ==
    CASE op = "rows" -> {"rows"}
      [] op = "columns" -> {"columns"}
      [] op = "win_length" -> {"win_length"}
      [] op = "board_size" -> {"rows", "columns"}
      [] op = "square_board" -> {"rows", "columns"}
      [] OTHER -> {}
\* The fields written by the calls logged in ch, and the number of build()
\* calls among them.
written(ch) == UNION {fields_of(ch[k].op) : k \in 1..Len(ch)}
builds(ch) == Cardinality({k \in 1..Len(ch) : ch[k].op = "build"})

\* The caller creates one builder and sets each field at most once before
\* it builds; after a build() that raised it makes one more setter call
\* and builds again.
may_set(fs) ==
    \/ builds(chain) = 0 /\ fs \cap written(chain) = {}
    \/ builds(chain) = 1 /\ call.op = "build" /\ raised # NoError
may_build == call.op # "build"

\* The call just made is added to the log.
logged ==
    /\ chain' = Append(chain, call')
    /\ UNCHANGED <<snapshots, writes, played, inflight>>

OrderNext ==
    \/ /\ builder = <<>>
       /\ new_builder
       /\ chain' = <<>>
       /\ UNCHANGED <<snapshots, writes, played, inflight>>
    \/ /\ may_set({"rows"})
       /\ \E v \in OrderArgs : rows_call(v)
       /\ logged
    \/ /\ may_set({"columns"})
       /\ \E v \in OrderArgs : columns_call(v)
       /\ logged
    \/ /\ may_set({"win_length"})
       /\ \E v \in OrderArgs : win_length_call(v)
       /\ logged
    \/ /\ may_set({"rows", "columns"})
       /\ \E r \in OrderArgs, c \in OrderArgs : board_size_call(r, c)
       /\ logged
    \/ /\ may_set({"rows", "columns"})
       /\ \E size \in OrderArgs : square_board_call(size)
       /\ logged
    \/ /\ may_build
       /\ build
       /\ logged

OrderSpec == Init /\ [][OrderNext]_vars

\* ---------------------------------------------------------------------
\* Two threads calling make_move on one game
\* ---------------------------------------------------------------------

\* Largest number of cells of a game shared by two threads.
MaxRaceCells == 4

Threads == {1, 2}
\* The cells of the board and one position outside it.
RaceArgs == ((0..(rows - 1)) \X (0..(columns - 1))) \cup {<<rows, columns>>}
idle(raced) == [pc |-> "idle", row |-> 0, col |-> 0, raced |-> raced]
\* Where thread t is in its make_move call; raced tells whether a call of
\* t has run while a call of the other thread was in progress.
thread(t) == IF t \in DOMAIN inflight THEN inflight[t] ELSE idle(FALSE)
in_call(t) == thread(t).pc # "idle"
set_thread(t, s) == [u \in 1..2 |-> IF u = t THEN s ELSE thread(u)]

\* ConnectNGame.make_move up to the end of validation: thread t raises, or
\* goes on to place its token. No lock is taken.
validate_step(t, row, col) ==
    /\ constructed
    /\ ~in_call(t)
    /\ call' = [op |-> "make_move", args |-> <<row, col>>]
    /\ ret' = None
    /\ raised' = IF is_valid_move(row, col) THEN NoError
                 ELSE IF is_game_over THEN ValueError(MsgGameOver, <<>>)
                 ELSE IF row < 0 \/ row >= rows \/ col < 0 \/ col >= columns
                 THEN ValueError(MsgBounds, <<row, col, rows, columns>>)
                 ELSE ValueError(MsgOccupied, <<row, col>>)
    /\ LET raced == \E u \in Threads : u # t /\ in_call(u)
       IN  inflight' =
               [u \in 1..2 |->
                   IF u # t
                   THEN [thread(u) EXCEPT !.raced = @ \/ raced]
                   ELSE IF is_valid_move(row, col)
                   THEN [pc |-> "place", row |-> row, col |-> col,
                         raced |-> thread(t).raced \/ raced]
                   ELSE idle(thread(t).raced \/ raced)]
    /\ UNCHANGED engine
    /\ UNCHANGED played

place_step_AlwaysX(t) ==
    /\ thread(t).pc = "place"
    /\ board' = [board EXCEPT ![thread(t).row][thread(t).col] = "X"]
    /\ inflight' = set_thread(t, [thread(t) EXCEPT !.pc = "check"])
    /\ UNCHANGED <<constructed, rows, columns, win_length, current_player,
                   game_status, winner, call, raised, ret, played>>
\* self._board[row][col] = self._current_player.token, in thread t
place_step(t) ==
    /\ thread(t).pc = "place"
    /\ board' = [board EXCEPT
                     ![thread(t).row][thread(t).col] = token(current_player)]
    /\ inflight' = set_thread(t, [thread(t) EXCEPT !.pc = "check"])
    /\ UNCHANGED <<constructed, rows, columns, win_length, current_player,
                   game_status, winner, call, raised, ret, played>>

\* self._check_for_winner(row, col), in thread t
check_step(t) ==
    /\ thread(t).pc = "check"
    /\ LET after == check_for_winner(board, thread(t).row, thread(t).col)
       IN  winner' = after.winner /\ game_status' = after.game_status
    /\ inflight' = set_thread(t, [thread(t) EXCEPT !.pc = "switch"])
    /\ UNCHANGED <<constructed, rows, columns, win_length, board,
                   current_player, call, raised, ret, played>>

\* if not self.is_game_over(): self._switch_player(), in thread t; the call
\* returns and the caller notes the move it made.
switch_step(t) ==
    /\ thread(t).pc = "switch"
    /\ current_player' = IF is_game_over THEN current_player
                         ELSE switch_player
    /\ played' = Append(played, <<thread(t).row, thread(t).col>>)
    /\ inflight' = set_thread(t, idle(thread(t).raced))
    /\ UNCHANGED <<constructed, rows, columns, win_length, board,
                   game_status, winner, call, raised, ret>>

\* One small game, and two threads that call make_move on it without any
\* lock of their own.
ConcurrentNext ==
    \/ /\ \E r \in 1..MaxDim, c \in 1..MaxDim, w \in 1..MaxDim :
             r * c <= MaxRaceCells /\ ConnectNGame(r, c, w)
       /\ UNCHANGED caller
    \/ /\ \E t \in Threads : \E p \in RaceArgs :
             validate_step(t, p[1], p[2])
       /\ UNCHANGED <<snapshots, writes, builder, held, chain>>
    \/ /\ \E t \in Threads : place_step(t)
       /\ UNCHANGED <<snapshots, writes, builder, held, chain>>
    \/ /\ \E t \in Threads : check_step(t)
       /\ UNCHANGED <<snapshots, writes, builder, held, chain>>
    \/ /\ \E t \in Threads : switch_step(t)
       /\ UNCHANGED <<snapshots, writes, builder, held, chain>>

ConcurrentSpec == Init /\ [][ConcurrentNext]_vars

\* ---------------------------------------------------------------------
\* Games played to their end
\* ---------------------------------------------------------------------

\* Largest number of cells of a game that is played to its end.
MaxPlayCells == 9

\* A call of make_move that is accepted.
accepted_move ==
    /\ \E p \in MoveArgs : make_move(p[1], p[2]) /\ raised' = NoError
    /\ UNCHANGED caller

\* A caller that plays every game to its end, and resets only a game that
\* is over.
PlayNext ==
    \/ /\ \E r \in ArgRange, c \in ArgRange, w \in ArgRange :
             r * c <= MaxPlayCells /\ ConnectNGame(r, c, w)
       /\ UNCHANGED caller
    \/ /\ \E p \in MoveArgs : make_move(p[1], p[2])
       /\ UNCHANGED caller
    \/ /\ is_game_over
       /\ reset
       /\ UNCHANGED caller

\* The caller keeps making a valid move whenever one exists.
PlaySpec == Init /\ [][PlayNext]_vars /\ WF_vars(accepted_move)

\* The calls of the preset factories; the caller keeps the game built last.
PresetNext ==
    \/ tic_tac_toe /\ UNCHANGED beside_builder
    \/ connect_four /\ UNCHANGED beside_builder
    \/ gomoku /\ UNCHANGED beside_builder
    \/ small_game /\ UNCHANGED beside_builder
    \/ large_game /\ UNCHANGED beside_builder
    \/ /\ \E size \in ArgRange, w \in ArgRange : custom_square(size, w)
       /\ UNCHANGED beside_builder

PresetSpec == Init /\ [][PresetNext]_vars

\* One builder that is changed and built from again and again; the caller
\* keeps the last two games and moves on the later one.
ReuseNext ==
    \/ new_builder /\ UNCHANGED beside_builder
    \/ /\ \E v \in ReuseArgs : rows_call(v)
       /\ UNCHANGED beside_builder
    \/ /\ \E v \in ReuseArgs : columns_call(v)
       /\ UNCHANGED beside_builder
    \/ /\ \E v \in ReuseArgs : win_length_call(v)
       /\ UNCHANGED beside_builder
    \/ build_another /\ UNCHANGED beside_builder
    \/ make_move(0, 0) /\ UNCHANGED caller

ReuseSpec == Init /\ [][ReuseNext]_vars

----------------------------------------------------------------------------
(* Vocabulary of the properties.  These definitions state what the         *)
(* specification says; they are not taken from the code's helpers.         *)

\* The last call was make_move and it returned normally / raised.
Moved == call.op = "make_move" /\ raised = NoError
Rejected == call.op = "make_move" /\ raised # NoError
\* The last call was the constructor, with these arguments.
Constructing == call.op = "__init__"

Terminal == {PLAYER_ONE_WON, PLAYER_TWO_WON, DRAW}
WonStatus(p) == IF p = PLAYER_ONE THEN PLAYER_ONE_WON ELSE PLAYER_TWO_WON

Cells == (0..(rows - 1)) \X (0..(columns - 1))
InBoard(r, c) == 0 <= r /\ r < rows /\ 0 <= c /\ c < columns
Marks(b, tok) == Cardinality({p \in Cells : b[p[1]][p[2]] = tok})
AllOccupied(b) == \A p \in Cells : b[p[1]][p[2]] \in {"X", "O"}

\* horizontal, vertical, diagonal, anti-diagonal
Axes == {<<0, 1>>, <<1, 0>>, <<1, 1>>, <<1, 0 - 1>>}
\* Cell k steps from (r, c) along axis d holds tok, and so does every cell
\* between it and (r, c), (r, c) included.
Joined(b, r, c, d, tok, k) ==
    \A j \in (IF k < 0 THEN k ELSE 0)..(IF k < 0 THEN 0 ELSE k) :
        /\ InBoard(r + j * d[1], c + j * d[2])
        /\ b[r + j * d[1]][c + j * d[2]] = tok
\* Length of the run of tok through (r, c) along axis d (0 if (r, c) does
\* not hold tok).
RunLength(b, r, c, d, tok) ==
    LET side == IF rows >= columns THEN rows ELSE columns
    IN  Cardinality({k \in (0 - side)..side : Joined(b, r, c, d, tok, k)})
\* Some axis through (r, c) carries a run of tok of at least win_length.
WinningRun(b, r, c, tok) ==
    \E d \in Axes : RunLength(b, r, c, d, tok) >= win_length

ValidConfig(r, c, w) == r >= 1 /\ c >= 1 /\ 1 <= w /\ w <= r /\ w <= c

----------------------------------------------------------------------------
(* Properties *)

\* C1: a constructor call with rows >= 1, columns >= 1 and
\* 1 <= winLength <= min(rows, columns) succeeds, and the game it yields has
\* a rows x columns board of empty cells, PlayerOne to move, status
\* InProgress, no winner, and reports the given rows/columns/winLength.
C1_ValidConstructionSucceeds ==
    (Constructing /\ ValidConfig(call.args[1], call.args[2], call.args[3]))
    => /\ raised = NoError
       /\ constructed
       /\ rows = call.args[1]
       /\ columns = call.args[2]
       /\ win_length = call.args[3]
       /\ DOMAIN board = 0..(call.args[1] - 1)
       /\ \A i \in DOMAIN board :
             /\ DOMAIN board[i] = 0..(call.args[2] - 1)
             /\ \A j \in DOMAIN board[i] : board[i][j] = " "
       /\ current_player = PLAYER_ONE
       /\ game_status = IN_PROGRESS
       /\ winner = None

\* A non-square game is the result of its constructor call.
C1_Witness ==
    /\ Constructing
    /\ call.args = <<2, 3, 2>>
    /\ constructed
    /\ rows = 2 /\ columns = 3 /\ win_length = 2

\* C2: a constructor call fails with ValueError, and creates no game,
\* exactly when rows <= 0, or columns <= 0, or winLength <= 0, or
\* winLength > min(rows, columns).
C2_InvalidConstructionFails ==
    Constructing
    => LET r == call.args[1]
           c == call.args[2]
           w == call.args[3]
           invalid == r <= 0 \/ c <= 0 \/ w <= 0 \/ w > (IF r <= c THEN r ELSE c)
       IN  /\ invalid <=> raised.kind = "ValueError"
           /\ invalid <=> ~constructed
           /\ ~invalid <=> raised = NoError

\* A win length above the smaller side was refused.
C2_Witness ==
    /\ Constructing
    /\ call.args = <<2, 3, 3>>
    /\ raised.kind = "ValueError"
    /\ ~constructed

\* C3: make_move(row, col) places a token and returns normally exactly when
\* is_valid_move(row, col) is true in the state it is called in; when it is
\* false, make_move raises one of its three errors and places nothing.
C3_MoveAcceptedIffValid ==
    [][call'.op = "make_move"
       => LET row == call'.args[1]
              col == call'.args[2]
          IN  IF is_valid_move(row, col)
              THEN /\ raised' = NoError
                   /\ board'[row][col] # " "
              ELSE /\ raised'.kind = "ValueError"
                   /\ raised'.msg \in {MsgGameOver, MsgBounds, MsgOccupied}
                   /\ board' = board]_vars

\* A move on an occupied cell of a running game was refused.
C3_Witness ==
    /\ Rejected
    /\ raised.msg = MsgOccupied
    /\ game_status = IN_PROGRESS
    /\ board[call.args[1]][call.args[2]] = "O"

\* C4: a rejected make_move leaves board, currentPlayer, status, winner and
\* configuration as they were.
C4_RejectedMoveChangesNothing ==
    [][(call'.op = "make_move" /\ raised' # NoError)
       => /\ board' = board
          /\ current_player' = current_player
          /\ game_status' = game_status
          /\ winner' = winner
          /\ rows' = rows
          /\ columns' = columns
          /\ win_length' = win_length
          /\ constructed' = constructed]_vars

\* An out-of-bounds move was refused in the middle of a game, with
\* PlayerTwo still to move.
C4_Witness ==
    /\ Rejected
    /\ raised.msg = MsgBounds
    /\ game_status = IN_PROGRESS
    /\ current_player = PLAYER_TWO
    /\ Marks(board, "X") = 2

\* C5: after a successful make_move(r, c) by player P, the status is P's won
\* status and the winner is P exactly when some axis through (r, c) carries
\* a contiguous run of P's token, (r, c) included, of length >= winLength.
C5_WinIffRunThroughMove ==
    [][(call'.op = "make_move" /\ raised' = NoError)
       => LET r == call'.args[1]
              c == call'.args[2]
              P == current_player
          IN  (game_status' = WonStatus(P) /\ winner' = P)
              <=> WinningRun(board', r, c, IF P = PLAYER_ONE THEN "X" ELSE "O")]_vars

\* PlayerOne won by joining two marks into a run of three, longer than the
\* win length 2.
C5_Witness ==
    /\ Moved
    /\ call.args = <<1, 1>>
    /\ rows = 3 /\ columns = 3 /\ win_length = 2
    /\ board[0][0] = "X" /\ board[1][1] = "X" /\ board[2][2] = "X"
    /\ game_status = PLAYER_ONE_WON
    /\ winner = PLAYER_ONE

\* C6: after a successful make_move that completes no run of winLength the
\* status is Draw if every cell is occupied and InProgress otherwise; a move
\* that fills the last cell and completes a run yields the mover's won
\* status.
C6_DrawIffFullWithoutRun ==
    Moved
    => LET r == call.args[1]
           c == call.args[2]
           tok == board[r][c]
       IN  IF WinningRun(board, r, c, tok)
           THEN game_status = (IF tok = "X" THEN PLAYER_ONE_WON ELSE PLAYER_TWO_WON)
           ELSE IF AllOccupied(board)
           THEN game_status = DRAW
           ELSE game_status = IN_PROGRESS

\* The ninth move of a 3x3 game filled the board without a run of three.
C6_Witness ==
    /\ Moved
    /\ rows = 3 /\ columns = 3 /\ win_length = 3
    /\ AllOccupied(board)
    /\ game_status = DRAW

\* C7: after a successful make_move that leaves the status InProgress the
\* player to move is the opponent of the mover; after one that ends the game
\* the player to move is still the mover.
C7_TurnAlternation ==
    [][(call'.op = "make_move" /\ raised' = NoError)
       => IF game_status' = IN_PROGRESS
          THEN current_player' \in Player /\ current_player' # current_player
          ELSE current_player' = current_player]_vars

\* PlayerTwo made the winning move and is still the current player.
C7_Witness ==
    /\ Moved
    /\ game_status = PLAYER_TWO_WON
    /\ current_player = PLAYER_TWO
    /\ board[call.args[1]][call.args[2]] = "O"

\* C8: in every reachable state of a game the winner is set exactly when the
\* status is a won status, and it is the player of that status; there is no
\* winner in InProgress and Draw.
C8_WinnerIffWon ==
    constructed
    => /\ game_status \in GameStatus
       /\ winner # None <=> game_status \in {PLAYER_ONE_WON, PLAYER_TWO_WON}
       /\ game_status = PLAYER_ONE_WON => winner = PLAYER_ONE
       /\ game_status = PLAYER_TWO_WON => winner = PLAYER_TWO
       /\ game_status \in {IN_PROGRESS, DRAW} => winner = None

\* is_valid_move was asked in a game that PlayerTwo has won.
C8_Witness ==
    /\ call.op = "is_valid_move"
    /\ game_status = PLAYER_TWO_WON
    /\ winner = PLAYER_TWO

\* C9: in every reachable state the number of 'X' marks minus the number of
\* 'O' marks is 0 or 1.
C9_MarkBalance ==
    constructed => Marks(board, "X") - Marks(board, "O") \in {0, 1}

\* Five marks are on the board of a running game.
C9_Witness ==
    /\ constructed
    /\ game_status = IN_PROGRESS
    /\ Marks(board, "X") = 3
    /\ Marks(board, "O") = 2

\* C10: a terminal status keeps its value under every call but reset, which
\* sets it to InProgress; it never becomes another terminal value.
C10_StatusMonotone ==
    [][(game_status \in Terminal)
       => IF call'.op = "reset"
          THEN game_status' = IN_PROGRESS
          ELSE game_status' = game_status]_vars

\* A move was refused after a draw, and the status is still Draw.
C10_Witness ==
    /\ Rejected
    /\ raised.msg = MsgGameOver
    /\ game_status = DRAW

\* C11: in a terminal state every make_move, whatever its row and col, fails
\* with the game-over error and leaves board and status unchanged, and
\* is_valid_move returns false for every position.
C11_TerminalRejectsEverything ==
    [][(game_status \in Terminal)
       => /\ call'.op = "make_move"
             => /\ raised' = [kind |-> "ValueError", msg |-> MsgGameOver,
                              vals |-> <<>>]
                /\ board' = board
                /\ game_status' = game_status
          /\ call'.op = "is_valid_move"
             => /\ raised' = NoError
                /\ ret' = FALSE]_vars

\* An out-of-bounds move was refused with the game-over error after a win.
C11_Witness ==
    /\ Rejected
    /\ raised.msg = MsgGameOver
    /\ game_status = PLAYER_ONE_WON
    /\ call.args[1] = 0 - 1

\* C12: a rejected make_move reports one of three causes: in a running game
\* a position outside the board is refused as out of bounds and a non-empty
\* cell of the board as occupied; game-over is reported only when the game
\* is not running.
C12_RejectionCauses ==
    [][call'.op = "make_move"
       => LET row == call'.args[1]
              col == call'.args[2]
          IN  /\ raised' # NoError
                 => /\ raised'.kind = "ValueError"
                    /\ raised'.msg \in {MsgGameOver, MsgBounds, MsgOccupied}
              /\ (game_status = IN_PROGRESS /\ ~InBoard(row, col))
                 => raised'.msg = MsgBounds
              /\ (game_status = IN_PROGRESS /\ InBoard(row, col)
                     /\ board[row][col] # " ")
                 => raised'.msg = MsgOccupied
              /\ raised'.msg = MsgGameOver => game_status # IN_PROGRESS]_vars

\* PlayerTwo tried a cell that PlayerOne holds.
C12_Witness ==
    /\ Rejected
    /\ raised.msg = MsgOccupied
    /\ game_status = IN_PROGRESS
    /\ current_player = PLAYER_TWO
    /\ board[call.args[1]][call.args[2]] = "X"

\* C13: is_valid_move(row, col) returns true exactly when the status is
\* InProgress, the position is on the board and its cell is empty; for every
\* other input it returns false, and it never raises.
C13_IsValidMoveMeaning ==
    call.op = "is_valid_move"
    => /\ raised = NoError
       /\ ret \in BOOLEAN
       /\ ret <=> /\ game_status = IN_PROGRESS
                  /\ InBoard(call.args[1], call.args[2])
                  /\ board[call.args[1]][call.args[2]] = " "

\* is_valid_move answered true for an empty cell of a game with marks on it.
C13_Witness ==
    /\ call.op = "is_valid_move"
    /\ ret = TRUE
    /\ Marks(board, "X") = 2
    /\ Marks(board, "O") = 1

\* C14: is_valid_move changes nothing: board, currentPlayer, status, winner
\* and configuration are the same after the call, in terminal states too.
C14_IsValidMovePure ==
    [][call'.op = "is_valid_move"
       => /\ board' = board
          /\ current_player' = current_player
          /\ game_status' = game_status
          /\ winner' = winner
          /\ rows' = rows
          /\ columns' = columns
          /\ win_length' = win_length
          /\ constructed' = constructed]_vars

\* is_valid_move was asked after a draw.
C14_Witness ==
    /\ call.op = "is_valid_move"
    /\ game_status = DRAW
    /\ ret = FALSE

\* C15: a successful make_move(r, c) writes the token of the player who was
\* to move ('X' for PlayerOne, 'O' for PlayerTwo) into cell (r, c) and
\* changes no other cell.
C15_MoveWritesOneCell ==
    [][(call'.op = "make_move" /\ raised' = NoError)
       => LET r == call'.args[1]
              c == call'.args[2]
          IN  /\ current_player = PLAYER_ONE => board'[r][c] = "X"
              /\ current_player = PLAYER_TWO => board'[r][c] = "O"
              /\ DOMAIN board' = DOMAIN board
              /\ \A i \in DOMAIN board :
                    /\ DOMAIN board'[i] = DOMAIN board[i]
                    /\ \A j \in DOMAIN board[i] :
                          <<i, j>> # <<r, c>> => board'[i][j] = board[i][j]]_vars

\* PlayerTwo placed the fourth mark of a game that goes on.
C15_Witness ==
    /\ Moved
    /\ board[call.args[1]][call.args[2]] = "O"
    /\ Marks(board, "X") = 2
    /\ Marks(board, "O") = 2
    /\ game_status = IN_PROGRESS

\* C16: a marked cell keeps its mark under every call other than reset.
C16_MarksStay ==
    [][(constructed /\ call'.op # "reset")
       => \A i \in DOMAIN board : \A j \in DOMAIN board[i] :
             board[i][j] # " " => board'[i][j] = board[i][j]]_vars

\* The board was read with three marks on it.
C16_Witness ==
    /\ call.op = "get_board"
    /\ Marks(board, "X") = 2
    /\ Marks(board, "O") = 1

\* C17: reset, in any state, yields the state the constructor yields for the
\* same configuration: empty board, PlayerOne to move, InProgress, no
\* winner, and rows, columns and winLength as before.
C17_ResetRestoresInitialState ==
    [][call'.op = "reset"
       => /\ rows' = rows
          /\ columns' = columns
          /\ win_length' = win_length
          /\ constructed'
          /\ DOMAIN board' = 0..(rows - 1)
          /\ \A i \in DOMAIN board' :
                /\ DOMAIN board'[i] = 0..(columns - 1)
                /\ \A j \in DOMAIN board'[i] : board'[i][j] = " "
          /\ current_player' = PLAYER_ONE
          /\ game_status' = IN_PROGRESS
          /\ winner' = None]_vars

\* A 2x3 game was reset.
C17_Witness ==
    /\ call.op = "reset"
    /\ rows = 2 /\ columns = 3 /\ win_length = 2
    /\ Marks(board, "X") = 0
    /\ current_player = PLAYER_ONE
    /\ game_status = IN_PROGRESS

\* The k-th snapshot as the caller reads it, before and after a step.
SnapshotNow(k) == snapshot_view(snapshots[k], board)
SnapshotAfter(k) == snapshot_view(snapshots'[k], board')

\* C18: get_board returns a snapshot equal to the board at the time of the
\* call; two snapshots taken in the same state are equal; assigning a value
\* to a cell of a snapshot changes that cell of that snapshot only, not the
\* engine's board and not another snapshot; and a move on the board changes
\* no snapshot.
C18_SnapshotsIndependent ==
    [][/\ (call'.op = "get_board" /\ Len(snapshots') = Len(snapshots) + 1)
          => /\ SnapshotAfter(Len(snapshots) + 1) = board
             /\ board' = board
             /\ \A m \in 1..Len(snapshots) : SnapshotAfter(m) = SnapshotNow(m)
             /\ (call.op = "get_board" /\ Len(snapshots) >= 1)
                => SnapshotAfter(Len(snapshots) + 1)
                     = SnapshotAfter(Len(snapshots))
       /\ call'.op = "write_snapshot"
          => LET k == call'.args[1]
                 i == call'.args[2]
                 j == call'.args[3]
                 v == call'.args[4]
             IN  /\ board' = board
                 /\ SnapshotAfter(k) = [SnapshotNow(k) EXCEPT ![i][j] = v]
                 /\ \A m \in 1..Len(snapshots) :
                       m # k => SnapshotAfter(m) = SnapshotNow(m)
       /\ call'.op = "make_move"
          => \A m \in 1..Len(snapshots) : SnapshotAfter(m) = SnapshotNow(m)]_vars

\* Two snapshots of a board with marks are held; the first was assigned to
\* and differs now, the second still equals the board.
C18_Witness ==
    /\ call.op = "write_snapshot"
    /\ call.args[1] = 1
    /\ Len(snapshots) = 2
    /\ Marks(board, "X") = 1
    /\ Marks(board, "O") = 1
    /\ SnapshotNow(2) = board
    /\ SnapshotNow(1) # board

\* The board holds one mark, an 'X' at (0, 0), and the last call was the
\* accepted make_move(0, 0): the first move of a fresh game.
FirstMoveAtOrigin ==
    /\ Moved
    /\ call.args = <<0, 0>>
    /\ Marks(board, "X") = 1
    /\ Marks(board, "O") = 0

\* C19 as claimed: on a fresh game of any valid configuration, make_move(0,0)
\* followed by make_move(0,0) makes the second call fail as occupied.
C19_SecondMoveOccupied ==
    [][(FirstMoveAtOrigin /\ call'.op = "make_move" /\ call'.args = <<0, 0>>)
       => raised'.msg = MsgOccupied]_vars

\* C19: on a fresh game, make_move(0,0) followed by make_move(0,0) makes the
\* second call fail: as occupied when winLength >= 2, and as game-over when
\* winLength = 1, where the first move has already won.
C19_SecondMoveRejected ==
    [][(FirstMoveAtOrigin /\ call'.op = "make_move" /\ call'.args = <<0, 0>>)
       => /\ raised'.kind = "ValueError"
          /\ win_length >= 2 => raised'.msg = MsgOccupied
          /\ win_length = 1 => raised'.msg = MsgGameOver]_vars

\* The only mark is PlayerOne's at (0, 0) and a second make_move(0, 0) was
\* refused as occupied.
C19_Witness ==
    /\ Rejected
    /\ call.args = <<0, 0>>
    /\ raised.msg = MsgOccupied
    /\ Marks(board, "X") = 1
    /\ Marks(board, "O") = 0
    /\ board[0][0] = "X"

\* C20: a failed construction reports the first violated constraint in the
\* order rows <= 0, columns <= 0, winLength <= 0, winLength > min(rows,
\* columns), with the offending value(s).
C20_FirstViolatedConstraint ==
    (Constructing /\ raised # NoError)
    => LET r == call.args[1]
           c == call.args[2]
           w == call.args[3]
       IN  /\ r <= 0 => raised.msg = MsgRows /\ raised.vals = <<r>>
           /\ (r > 0 /\ c <= 0)
              => raised.msg = MsgColumns /\ raised.vals = <<c>>
           /\ (r > 0 /\ c > 0 /\ w <= 0)
              => raised.msg = MsgWinLength /\ raised.vals = <<w>>
           /\ (r > 0 /\ c > 0 /\ w > 0)
              => /\ raised.msg = MsgExceed
                 /\ raised.vals = <<w, IF r <= c THEN r ELSE c>>
                 /\ w > r \/ w > c

\* All three arguments are invalid and the error names rows.
C20_Witness ==
    /\ Constructing
    /\ call.args = <<0, 0 - 1, 0>>
    /\ raised.msg = MsgRows
    /\ raised.vals = <<0>>

\* The scripted game s: the moves accepted so far are its first ones.
Following(s) ==
    /\ Len(played) <= Len(s)
    /\ \A k \in 1..Len(played) : played[k] = s[k]
\* A step that makes the next move of the scripted game s.
NextMoveOf(s) ==
    /\ Following(s)
    /\ Len(played) < Len(s)
    /\ call'.op = "make_move"
    /\ call'.args = s[Len(played) + 1]
\* The first n moves of s.
FirstMoves(s, n) == [k \in 1..n |-> s[k]]
\* A square board of at least 3x3 with win length 3.
SquareWinThree == constructed /\ rows = columns /\ rows >= 3 /\ win_length = 3

\* C21: on a square board of size 3 or more with winLength 3, every move of
\* (0,0),(1,0),(0,1),(1,1),(0,2) from a fresh game is accepted, the game is
\* InProgress before the fifth move, and after it is_game_over() is true,
\* the winner is PlayerOne and the status is PlayerOneWon.
C21_HorizontalWinScenario ==
    [][(SquareWinThree /\ NextMoveOf(HorizontalWin))
       => /\ raised' = NoError
          /\ played' = FirstMoves(HorizontalWin, Len(played) + 1)
          /\ game_status = IN_PROGRESS
          /\ Len(played') < 5 => game_status' = IN_PROGRESS /\ winner' = None
          /\ Len(played') = 5
             => /\ is_game_over'
                /\ winner' = PLAYER_ONE
                /\ game_status' = PLAYER_ONE_WON]_vars

\* The horizontal script has been played to its end on a 10x10 board.
C21_Witness ==
    /\ played = HorizontalWin
    /\ rows = 10 /\ columns = 10 /\ win_length = 3
    /\ Moved
    /\ call.args = <<0, 2>>
    /\ game_status = PLAYER_ONE_WON

\* C22: on a square board of size 3 or more with winLength 3, the moves
\* (0,0),(0,1),(1,1),(0,2),(2,2) from a fresh game end with PlayerOne
\* winning; the winning run is the main diagonal (0,0),(1,1),(2,2), and
\* PlayerTwo's marks at (0,1),(0,2) do not end the game earlier.
C22_DiagonalWinScenario ==
    [][(SquareWinThree /\ NextMoveOf(DiagonalWin))
       => /\ raised' = NoError
          /\ played' = FirstMoves(DiagonalWin, Len(played) + 1)
          /\ Len(played') < 5 => game_status' = IN_PROGRESS /\ winner' = None
          /\ Len(played') \in {2, 4}
             => board'[call'.args[1]][call'.args[2]] = "O"
          /\ Len(played') = 5
             => /\ game_status' = PLAYER_ONE_WON
                /\ winner' = PLAYER_ONE
                /\ \A k \in 0..2 : board'[k][k] = "X"
                /\ board'[0][1] = "O" /\ board'[0][2] = "O"
                /\ \A d \in Axes :
                      RunLength(board', 2, 2, d, "X") >= 3 <=> d = <<1, 1>>]_vars

\* The diagonal script has been played to its end on a 3x3 board.
C22_Witness ==
    /\ played = DiagonalWin
    /\ rows = 3 /\ columns = 3 /\ win_length = 3
    /\ Moved
    /\ call.args = <<2, 2>>
    /\ winner = PLAYER_ONE

\* C23: on a fresh 3x3 game with winLength 3 the nine moves (0,0),(0,1),
\* (0,2),(1,1),(1,0),(2,0),(1,2),(2,2),(2,1) are all accepted, the status
\* is InProgress after each of the first eight, and after the ninth the
\* status is Draw, there is no winner and is_game_over() is true.
C23_DrawScenarioOutcome ==
    [][(SquareWinThree /\ rows = 3 /\ NextMoveOf(DrawGame))
       => /\ raised' = NoError
          /\ played' = FirstMoves(DrawGame, Len(played) + 1)
          /\ Len(played') <= 8 => game_status' = IN_PROGRESS
          /\ Len(played') = 9
             => /\ game_status' = DRAW
                /\ is_game_over'
          /\ winner' = None]_vars

\* The draw script has been played to its end.
C23_Witness ==
    /\ played = DrawGame
    /\ rows = 3 /\ columns = 3 /\ win_length = 3
    /\ Moved
    /\ call.args = <<2, 1>>
    /\ game_status = DRAW

\* The board of the draw script as the specification prints it, and as the
\* alternation of the two players fills it.
DrawBoardClaimed ==
    <<<<"X", "O", "X">>, <<"O", "X", "X">>, <<"O", "X", "O">>>>
DrawBoardPlayed ==
    <<<<"X", "O", "X">>, <<"X", "O", "X">>, <<"O", "X", "O">>>>
\* The rows of the board, top to bottom, as tuples.
BoardRows == [i \in 1..rows |-> [j \in 1..columns |-> board[i - 1][j - 1]]]

C25_ConfigurationFixed ==
    [][/\ (call'.op = "__init__" /\ raised' = NoError)
          => /\ rows' = call'.args[1]
             /\ columns' = call'.args[2]
             /\ win_length' = call'.args[3]
       /\ constructed
          => /\ constructed'
             /\ rows' = rows
             /\ columns' = columns
             /\ win_length' = win_length
       /\ constructed'
          => /\ DOMAIN board' = 0..(rows' - 1)
             /\ \A i \in DOMAIN board' :
                   /\ DOMAIN board'[i] = 0..(columns' - 1)
                   /\ \A j \in DOMAIN board'[i] :
                         board'[i][j] \in {" ", "X", "O"}]_vars

\* A 2x3 game with win length 2 still has its configuration and its two
\* rows of three cells after the move that won it.
C25_Witness ==
    /\ Moved
    /\ game_status = PLAYER_ONE_WON
    /\ rows = 2 /\ columns = 3 /\ win_length = 2
    /\ DOMAIN board = 0..1
    /\ DOMAIN board[0] = 0..2
    /\ DOMAIN board[1] = 0..2

\* C30: get_opponent maps each of the two players to the other one:
\* opponent(PlayerOne) = PlayerTwo, opponent(PlayerTwo) = PlayerOne, so
\* opponent(p) # p and opponent(opponent(p)) = p for every player p, the
\* player to move included.
C30_OpponentSwaps ==
    /\ get_opponent(PLAYER_ONE) = PLAYER_TWO
    /\ get_opponent(PLAYER_TWO) = PLAYER_ONE
    /\ \A p \in Player :
          /\ get_opponent(p) \in Player
          /\ get_opponent(p) # p
          /\ get_opponent(get_opponent(p)) = p
    /\ constructed
       => /\ current_player \in Player
          /\ get_opponent(current_player) \in Player \ {current_player}
          /\ get_opponent(get_opponent(current_player)) = current_player

\* The turn has passed from PlayerOne to PlayerTwo and back.
C30_Witness ==
    /\ Moved
    /\ current_player = PLAYER_ONE
    /\ get_opponent(current_player) = PLAYER_TWO
    /\ Marks(board, "X") = 1
    /\ Marks(board, "O") = 1
    /\ game_status = IN_PROGRESS

\* The fields g are those of a game as the constructor returns it for
\* (r, c, w).
FreshState(g, r, c, w) ==
    /\ g.rows = r /\ g.columns = c /\ g.win_length = w
    /\ DOMAIN g.board = 0..(r - 1)
    /\ \A i \in DOMAIN g.board :
          /\ DOMAIN g.board[i] = 0..(c - 1)
          /\ \A j \in DOMAIN g.board[i] : g.board[i][j] = " "
    /\ g.current_player = PLAYER_ONE
    /\ g.game_status = IN_PROGRESS
    /\ g.winner = None
\* The caller's game is in that state.
FreshGame(r, c, w) == constructed /\ FreshState(game_state, r, c, w)

\* C26: build() behaves as ConnectNGame(rows, columns, winLength) called
\* with the builder's present values: it fails with the constructor's error
\* exactly when the values are no valid configuration, and otherwise yields
\* a game in the initial state with that configuration.
C26_BuildIsConstructor ==
    [][call'.op = "build"
       => LET b == builder[1]
          IN  /\ raised' = Validate(b.rows, b.columns, b.win_length)
              /\ raised' # NoError
                 <=> ~ValidConfig(b.rows, b.columns, b.win_length)
              /\ raised' = NoError
                 => /\ constructed'
                    /\ FreshState(game_state', b.rows, b.columns,
                                  b.win_length)
                    /\ ret' = NewObject
              /\ raised' # NoError
                 => /\ raised'.kind = "ValueError"
                    /\ ret' = None
                    /\ UNCHANGED engine]_vars

\* A 2x4 game with win length 2 was built.
C26_Witness ==
    /\ call.op = "build"
    /\ raised = NoError
    /\ builder = <<[rows |-> 2, columns |-> 4, win_length |-> 2]>>
    /\ FreshGame(2, 4, 2)

BuilderSetters == {"rows", "columns", "win_length", "board_size", "square_board"}

\* C27: a new builder holds rows = 3, columns = 3, winLength = 3; rows,
\* columns and win_length write their one field, board_size(r, c) writes
\* rows and columns, square_board(s) writes both as s, and nothing else
\* writes a field; build() yields a game with the values the fields hold.
C27_BuilderAccumulates ==
    [][/\ call'.op = "ConnectNGameBuilder"
          => builder' = <<[rows |-> 3, columns |-> 3, win_length |-> 3]>>
       /\ call'.op = "rows"
          => builder' = <<[rows |-> call'.args[1],
                           columns |-> builder[1].columns,
                           win_length |-> builder[1].win_length]>>
       /\ call'.op = "columns"
          => builder' = <<[rows |-> builder[1].rows,
                           columns |-> call'.args[1],
                           win_length |-> builder[1].win_length]>>
       /\ call'.op = "win_length"
          => builder' = <<[rows |-> builder[1].rows,
                           columns |-> builder[1].columns,
                           win_length |-> call'.args[1]]>>
       /\ call'.op = "board_size"
          => builder' = <<[rows |-> call'.args[1],
                           columns |-> call'.args[2],
                           win_length |-> builder[1].win_length]>>
       /\ call'.op = "square_board"
          => builder' = <<[rows |-> call'.args[1],
                           columns |-> call'.args[1],
                           win_length |-> builder[1].win_length]>>
       /\ call'.op \notin BuilderSetters \cup {"ConnectNGameBuilder"}
          => builder' = builder
       /\ (call'.op = "build" /\ raised' = NoError)
          => /\ rows' = builder[1].rows
             /\ columns' = builder[1].columns
             /\ win_length' = builder[1].win_length
       /\ (call.op = "ConnectNGameBuilder" /\ call'.op = "build")
          => raised' = NoError /\ FreshGame(3, 3, 3)'
       /\ (call.op = "ConnectNGameBuilder" /\ call'.op = "rows")
          => builder' = <<[rows |-> call'.args[1], columns |-> 3,
                           win_length |-> 3]>>
       /\ (call.op = "ConnectNGameBuilder" /\ call'.op = "columns")
          => builder' = <<[rows |-> 3, columns |-> call'.args[1],
                           win_length |-> 3]>>]_vars

\* A builder on which only rows(5) was called built a 5x3 game with win
\* length 3.
C27_Witness ==
    /\ call.op = "build"
    /\ raised = NoError
    /\ builder = <<[rows |-> 5, columns |-> 3, win_length |-> 3]>>
    /\ rows = 5 /\ columns = 3 /\ win_length = 3

\* C28: each preset factory succeeds and returns a fresh game: tic_tac_toe
\* 3x3 win 3, connect_four 6x7 win 4, gomoku 15x15 win 5, small_game 5x5
\* win 4, large_game 10x10 win 5; custom_square(size, winLength) returns a
\* fresh size x size game with that win length, and fails exactly when
\* size <= 0 or winLength is not in 1..size.
C28_PresetFactories ==
    /\ call.op = "tic_tac_toe" => raised = NoError /\ FreshGame(3, 3, 3)
    /\ call.op = "connect_four" => raised = NoError /\ FreshGame(6, 7, 4)
    /\ call.op = "gomoku" => raised = NoError /\ FreshGame(15, 15, 5)
    /\ call.op = "small_game" => raised = NoError /\ FreshGame(5, 5, 4)
    /\ call.op = "large_game" => raised = NoError /\ FreshGame(10, 10, 5)
    /\ call.op = "custom_square"
       => LET size == call.args[1]
              w == call.args[2]
          IN  IF size <= 0 \/ w \notin 1..size
              THEN raised.kind = "ValueError" /\ ret = None
              ELSE raised = NoError /\ FreshGame(size, size, w)

\* connect_four returned a game of 6 rows and 7 columns.
C28_Witness ==
    /\ call.op = "connect_four"
    /\ raised = NoError
    /\ DOMAIN board = 0..5
    /\ DOMAIN board[5] = 0..6
    /\ win_length = 4

\* The earlier game as the caller reads it, before and after a step.
HeldNow == held_view(held[1], game_state)
HeldAfter == held_view(held'[1], game_state')

\* C29: build() leaves the builder as it is and returns a new game in the
\* initial state while the game built before stays as it was; a move on the
\* later game leaves the earlier game's board, turn and status unchanged;
\* and a setter call on the builder changes no game built earlier.
C29_BuiltGamesIndependent ==
    [][/\ call'.op = "build"
          => /\ builder' = builder
             /\ raised' = NoError
                => /\ constructed'
                   /\ FreshState(game_state', builder[1].rows,
                                 builder[1].columns, builder[1].win_length)
                   /\ constructed
                      => /\ held' # <<>>
                         /\ HeldAfter = game_state
             /\ raised' # NoError
                => /\ game_state' = game_state
                   /\ held # <<>> => held' # <<>> /\ HeldAfter = HeldNow
       /\ (call'.op = "make_move" /\ held # <<>>)
          => /\ held' # <<>>
             /\ HeldAfter = HeldNow
       /\ call'.op \in BuilderSetters \cup {"ConnectNGameBuilder"}
          => /\ game_state' = game_state
             /\ constructed' = constructed
             /\ held # <<>> => held' # <<>> /\ HeldAfter = HeldNow]_vars

\* The caller built a 3x3 game, changed the builder, built a 2x3 game and
\* moved on it: the 3x3 game is still empty.
C29_Witness ==
    /\ Moved
    /\ held # <<>>
    /\ rows = 2 /\ columns = 3
    /\ board[0][0] = "X"
    /\ HeldNow.rows = 3
    /\ HeldNow.board[0][0] = " "
    /\ HeldNow.current_player = PLAYER_ONE


\* ---------------------------------------------------------------------
\* The status against a scan of the whole board
\* ---------------------------------------------------------------------

\* A scan of the whole board: some cell starts a run of win_length tokens
\* tok along some axis.
HasRun(b, tok) ==
    \E p \in Cells : \E d \in Axes :
        Joined(b, p[1], p[2], d, tok, win_length - 1)

\* C31: checking only the axes through the cell just played is enough. In
\* every reachable state the status is a player's won status exactly when
\* a scan of the whole board finds a run of at least win_length of that
\* player's token; in IN_PROGRESS and DRAW states the scan finds no run of
\* either token; the two tokens never both have a run.
C31_IncrementalCheckSuffices ==
    constructed =>
        /\ \A P \in Player :
               game_status = WonStatus(P) <=> HasRun(board, token(P))
        /\ game_status \in {IN_PROGRESS, DRAW}
               => ~HasRun(board, "X") /\ ~HasRun(board, "O")
        /\ ~(HasRun(board, "X") /\ HasRun(board, "O"))

\* PLAYER_ONE completes a row of three by playing its middle cell, so the
\* run is found by counting in both directions from the cell just played.
C31_Witness ==
    /\ Moved /\ call.args = <<0, 1>>
    /\ win_length = 3 /\ game_status = PLAYER_ONE_WON
    /\ board[0][0] = "X" /\ board[0][2] = "X"
    /\ HasRun(board, "X") /\ ~HasRun(board, "O")

\* ---------------------------------------------------------------------
\* Stuck states, win length one, the player to move, the mark balance
\* ---------------------------------------------------------------------

\* C36: no state is stuck. In every reachable IN_PROGRESS state some cell
\* is empty, is_valid_move is true of it and make_move on it is accepted;
\* the status is DRAW only when every cell of the board is occupied.
C36_NoStuckState ==
    constructed =>
        /\ game_status = IN_PROGRESS
               => \E p \in Cells :
                      /\ board[p[1]][p[2]] = " "
                      /\ is_valid_move(p[1], p[2])
                      /\ ENABLED (make_move(p[1], p[2]) /\ raised' = NoError)
        /\ game_status = DRAW => AllOccupied(board)

\* A 3x3 game still in progress with one empty cell left.
C36_Witness ==
    /\ constructed /\ rows = 3 /\ columns = 3
    /\ game_status = IN_PROGRESS
    /\ Marks(board, " ") = 1
    /\ \E p \in Cells : is_valid_move(p[1], p[2])

\* C37: with win_length = 1 the first successful make_move ends the game
\* with PLAYER_ONE_WON. PLAYER_TWO never gets the turn, the board holds no
\* "O" and at most one "X", it holds one exactly when the game is won, and
\* the statuses PLAYER_TWO_WON and DRAW are never reached.
C37_WinLengthOne ==
    constructed /\ win_length = 1 =>
        /\ game_status \in {IN_PROGRESS, PLAYER_ONE_WON}
        /\ current_player = PLAYER_ONE
        /\ Marks(board, "O") = 0
        /\ Marks(board, "X") <= 1
        /\ Marks(board, "X") = 1 <=> game_status = PLAYER_ONE_WON
        /\ Moved => game_status = PLAYER_ONE_WON

\* The first move of a 2x3 game with win_length 1 has just been made.
C37_Witness ==
    /\ Moved /\ win_length = 1 /\ rows = 2 /\ columns = 3
    /\ game_status = PLAYER_ONE_WON /\ winner = PLAYER_ONE
    /\ Marks(board, "X") = 1 /\ Marks(board, " ") = 5

\* The player who placed the last mark, read from the board: "X" moves
\* first and the marks alternate.
LastMover(b) ==
    IF Marks(b, "X") = Marks(b, "O") + 1 THEN PLAYER_ONE ELSE PLAYER_TWO

\* C38: while the game is in progress the board determines the player to
\* move: current_player is PLAYER_ONE iff the board holds as many "X" as
\* "O", and PLAYER_TWO iff it holds one more "X" than "O". In a terminal
\* state current_player is the player who placed the last mark, and in a
\* won state it is the winner.
C38_PlayerToMoveFromBoard ==
    constructed =>
        /\ game_status = IN_PROGRESS =>
               /\ current_player = PLAYER_ONE
                      <=> Marks(board, "X") = Marks(board, "O")
               /\ current_player = PLAYER_TWO
                      <=> Marks(board, "X") = Marks(board, "O") + 1
        /\ game_status \in Terminal =>
               /\ current_player = LastMover(board)
               /\ Moved => board[call.args[1]][call.args[2]]
                               = token(current_player)
        /\ game_status \in {PLAYER_ONE_WON, PLAYER_TWO_WON}
               => current_player = winner

\* PLAYER_TWO has just won: it placed the last mark and is still the
\* current player.
C38_Witness ==
    /\ Moved /\ game_status = PLAYER_TWO_WON
    /\ current_player = PLAYER_TWO /\ winner = PLAYER_TWO
    /\ board[call.args[1]][call.args[2]] = "O"
    /\ Marks(board, "X") = Marks(board, "O")

\* C39: the terminal status fixes the mark balance. PLAYER_ONE_WON implies
\* one more "X" than "O", PLAYER_TWO_WON implies as many "X" as "O", and
\* DRAW implies ceil(rows * columns / 2) "X" and floor(rows * columns / 2)
\* "O".
C39_StatusFixesBalance ==
    constructed =>
        /\ game_status = PLAYER_ONE_WON
               => Marks(board, "X") = Marks(board, "O") + 1
        /\ game_status = PLAYER_TWO_WON
               => Marks(board, "X") = Marks(board, "O")
        /\ game_status = DRAW =>
               /\ Marks(board, "X") = (rows * columns + 1) \div 2
               /\ Marks(board, "O") = (rows * columns) \div 2

\* A drawn 3x3 game: five "X" and four "O".
C39_Witness ==
    /\ constructed /\ rows = 3 /\ columns = 3 /\ game_status = DRAW
    /\ Marks(board, "X") = 5 /\ Marks(board, "O") = 4

\* ---------------------------------------------------------------------
\* Setters that never fail, their order, the default win length
\* ---------------------------------------------------------------------

\* The builder after the call c on the builder b.
after_call(b, c) ==
    CASE c.op = "rows" -> builder_rows(b, c.args[1])
      [] c.op = "columns" -> builder_columns(b, c.args[1])
      [] c.op = "win_length" -> builder_win_length(b, c.args[1])
      [] c.op = "board_size" -> board_size(b, c.args[1], c.args[2])
      [] c.op = "square_board" -> square_board(b, c.args[1])
      [] OTHER -> b
\* The builder after the logged calls ch on a new builder.
RECURSIVE after_calls(_)
after_calls(ch) ==
    IF ch = <<>> THEN ConnectNGameBuilder
    ELSE after_call(after_calls(SubSeq(ch, 1, Len(ch) - 1)), ch[Len(ch)])

Called(op, args) == [op |-> op, args |-> args]
\* The first build() on the builder has just returned or raised.
FirstBuild == call.op = "build" /\ builds(chain) = 1

\* C33: the setters never validate and never fail. rows, columns,
\* win_length, board_size and square_board accept any integer, zero,
\* negative or a win length larger than the board, store it and return
\* the builder; the builder holds what the calls made on it wrote. Only
\* build() reports an invalid value, and it judges the values the builder
\* holds when it is called: once a later setter call has corrected the
\* value, build() succeeds.
C33_SettersNeverFail ==
    builder # <<>> =>
        /\ builder[1] = after_calls(chain)
        /\ call.op \in BuilderSetters
               => raised = NoError /\ ret = builder[1]
        /\ call.op \in {"rows", "board_size", "square_board"}
               => builder[1].rows = call.args[1]
        /\ call.op \in {"columns", "square_board"}
               => builder[1].columns = call.args[1]
        /\ call.op = "board_size" => builder[1].columns = call.args[2]
        /\ call.op = "win_length" => builder[1].win_length = call.args[1]
        /\ call.op = "build" =>
               LET b == builder[1]
               IN  /\ raised = Validate(b.rows, b.columns, b.win_length)
                   /\ IF ValidConfig(b.rows, b.columns, b.win_length)
                      THEN /\ raised = NoError /\ ret = NewObject
                           /\ FreshGame(b.rows, b.columns, b.win_length)
                      ELSE raised.kind = "ValueError" /\ ret = None

\* win_length(4) was accepted on a 3x3 builder, build() raised, the caller
\* corrected the value with win_length(3) and build() returned a game.
C33_Witness ==
    /\ chain = <<Called("win_length", <<4>>), Called("build", <<>>),
                 Called("win_length", <<3>>), Called("build", <<>>)>>
    /\ raised = NoError /\ ret = NewObject
    /\ FreshGame(3, 3, 3)

\* C34: the order of setter calls on different fields does not matter.
\* For all r, c, w, whatever the order in which rows(r), columns(c) and
\* win_length(w) were called, build() gives the result fixed by r, c and
\* w alone: a fresh r x c game with win length w, or the error that
\* ConnectNGame(r, c, w) raises. This includes the orders in which the
\* win length exceeds the board held at the time of the call.
C34_SetterOrderIrrelevant ==
    (FirstBuild /\ Len(chain) = 4) =>
        \A r \in OrderArgs, c \in OrderArgs, w \in OrderArgs :
            {chain[1], chain[2], chain[3]}
                = {Called("rows", <<r>>), Called("columns", <<c>>),
                   Called("win_length", <<w>>)}
            => /\ builder = <<[rows |-> r, columns |-> c,
                               win_length |-> w]>>
               /\ raised = Validate(r, c, w)
               /\ IF ValidConfig(r, c, w)
                  THEN /\ raised = NoError /\ ret = NewObject
                       /\ FreshGame(r, c, w)
                  ELSE /\ raised.kind = "ValueError" /\ ret = None
                       /\ ~constructed

\* win_length(4) was called while the builder held a 3x3 board, then
\* columns(4) and rows(4); build() returned a 4x4 game with win length 4.
C34_Witness ==
    /\ chain = <<Called("win_length", <<4>>), Called("columns", <<4>>),
                 Called("rows", <<4>>), Called("build", <<>>)>>
    /\ raised = NoError
    /\ FreshGame(4, 4, 4)

\* The caller made no win_length call before the first build().
NoWinLengthSet == FirstBuild /\ "win_length" \notin written(chain)
\* The one setter call made before the first build().
OnlyCall == chain[1]
\* A configuration without win_length whose sides are both at least 3
\* builds a game with win length 3.
LargeBoardsBuild ==
    (NoWinLengthSet /\ builder[1].rows >= 3 /\ builder[1].columns >= 3)
    => /\ raised = NoError /\ ret = NewObject
       /\ FreshGame(builder[1].rows, builder[1].columns, 3)
WinLengthExceeds ==
    raised = ValueError(MsgExceed,
                        <<3, min(builder[1].rows, builder[1].columns)>>)

\* C40 as stated: after rows(k), columns(k) or square_board(k) with
\* 1 <= k < 3, or board_size with a side below 3, and no win_length call,
\* build() fails with the error that the win length exceeds
\* min(rows, columns); a configuration without win_length with both sides
\* at least 3 builds.
C40_SmallSideExceeds ==
    /\ ( /\ NoWinLengthSet
         /\ Len(chain) = 2
         /\ \/ /\ OnlyCall.op \in {"rows", "columns", "square_board"}
               /\ 1 <= OnlyCall.args[1] /\ OnlyCall.args[1] < 3
            \/ /\ OnlyCall.op = "board_size"
               /\ (OnlyCall.args[1] < 3 \/ OnlyCall.args[2] < 3) )
       => WinLengthExceeds
    /\ LargeBoardsBuild

\* C40: the default win length 3 is not adapted to the board. When no
\* win_length call was made and the builder holds positive sides of
\* which one is below 3, build() fails with the error that the win
\* length 3 exceeds min(rows, columns); when it holds a side that is zero
\* or negative, build() fails with the error that rows or columns must be
\* positive; when both sides are at least 3, build() returns a game with
\* win length 3.
C40_PositiveSmallSideExceeds ==
    /\ NoWinLengthSet =>
           LET b == builder[1]
           IN  /\ b.win_length = 3
               /\ (b.rows >= 1 /\ b.columns >= 1 /\ min(b.rows, b.columns) < 3)
                  => WinLengthExceeds /\ ret = None /\ ~constructed
               /\ b.rows <= 0 => raised = ValueError(MsgRows, <<b.rows>>)
               /\ (b.rows >= 1 /\ b.columns <= 0)
                  => raised = ValueError(MsgColumns, <<b.columns>>)
    /\ LargeBoardsBuild

\* Only square_board(2) was called; build() raised because the win length
\* 3 exceeds 2.
C40_Witness ==
    /\ chain = <<Called("square_board", <<2>>), Called("build", <<>>)>>
    /\ builder = <<[rows |-> 2, columns |-> 2, win_length |-> 3]>>
    /\ raised = ValueError(MsgExceed, <<3, 2>>)
    /\ ~constructed

\* ---------------------------------------------------------------------
\* Interleaved make_move calls
\* ---------------------------------------------------------------------

\* No call has run while a call of the other thread was in progress.
Serialized == \A t \in Threads : ~thread(t).raced
NoCallInProgress == \A t \in Threads : ~in_call(t)
MarkDifference == Marks(board, "X") - Marks(board, "O")

\* What holds of a game between two calls when its calls run one at a
\* time: the marks are balanced, every accepted move left its mark, the
\* player to move follows from the board, and the status is the one a scan
\* of the board gives.
EngineInvariants ==
    /\ MarkDifference \in {0, 1}
    /\ \A k \in 1..Len(played) :
           board[played[k][1]][played[k][2]]
               = (IF k % 2 = 1 THEN "X" ELSE "O")
    /\ Len(played) = Marks(board, "X") + Marks(board, "O")
    /\ game_status = IN_PROGRESS
           => (current_player = PLAYER_ONE <=> MarkDifference = 0)
    /\ \A P \in Player :
           /\ game_status = WonStatus(P) <=> HasRun(board, token(P))
           /\ winner = P <=> game_status = WonStatus(P)
    /\ game_status = DRAW
           <=> /\ AllOccupied(board)
               /\ ~HasRun(board, "X") /\ ~HasRun(board, "O")

\* C32: make_move takes no lock, and its steps (validate, place the token,
\* evaluate win and draw, switch the player) can interleave with those of
\* another call. As long as every call runs from validation to return
\* with no other call in progress, the engine's invariants hold between
\* calls and the mark difference stays in {0, 1} throughout; calls whose
\* steps interleave reach states that break them.
C32_SerializedCallsKeepInvariants ==
    (constructed /\ Serialized) =>
        /\ MarkDifference \in {0, 1}
        /\ NoCallInProgress => EngineInvariants

\* Two calls passed validation before either placed its token; both
\* placed "X", and after both returned the board holds two "X" and no "O".
C32_Witness ==
    /\ constructed /\ ~Serialized /\ NoCallInProgress
    /\ Len(played) = 2 /\ played[1] # played[2]
    /\ Marks(board, "X") = 2 /\ Marks(board, "O") = 0
    /\ MarkDifference \notin {0, 1}
    /\ ~EngineInvariants


\* ---------------------------------------------------------------------
\* Termination
\* ---------------------------------------------------------------------

\* The number of marks on the board.
TotalMarks == Marks(board, "X") + Marks(board, "O")

\* C35: every game ends. An accepted make_move adds one mark, a rejected
\* one adds none, and construction and reset leave none, so the marks
\* count the moves accepted since construction or the last reset: there
\* are at most rows x columns of them, and after the rows x columns-th
\* the status is terminal. And if the caller keeps making a valid move
\* whenever one exists, a game in progress eventually reaches
\* PLAYER_ONE_WON, PLAYER_TWO_WON or DRAW.
C35_EveryGameEnds ==
    /\ [][/\ (call'.op = "make_move" /\ raised' = NoError)
              => TotalMarks' = TotalMarks + 1
          /\ (call'.op = "make_move" /\ raised' # NoError)
              => TotalMarks' = TotalMarks
          /\ (call'.op \in {"__init__", "reset"} /\ constructed')
              => TotalMarks' = 0]_vars
    /\ [](constructed =>
              /\ TotalMarks <= rows * columns
              /\ TotalMarks = rows * columns => game_status \in Terminal)
    /\ (constructed /\ game_status = IN_PROGRESS)
           ~> (game_status \in Terminal)

\* A 3x3 game ended in a draw with its ninth accepted move.
C35_Witness ==
    /\ Moved /\ rows = 3 /\ columns = 3
    /\ TotalMarks = 9 /\ game_status = DRAW

====
